---- MODULE Spec2Model ----
(***************************************************************************)
(* The light-source controller of examples/quantum_light_controller.py     *)
(* (class QuantumLightSourceController) with its three simulated           *)
(* subsystems and the threading.Timer threads that start_emission spawns.  *)
(*                                                                         *)
(* Thread 0 is the control thread: it makes one call at a time.  Threads   *)
(* 1..MaxTimers are threading.Timer threads, each running stop_emission    *)
(* once its delay has elapsed.  Every statement that reads or writes a     *)
(* field two threads share (state, current_power, the optimizer's and the  *)
(* monitor's flags) is one step, so that the steps of a timer thread       *)
(* interleave with those of the control thread as the interpreter may      *)
(* interleave them (the code holds no lock).  Statements that touch only   *)
(* the jet subsystem, which no timer thread reaches, are folded into one   *)
(* step.  Powers are integers (units of 1 nW).                             *)
(*                                                                         *)
(* The device adapters and the DeviceManager of                            *)
(* src/adapters/device_adapters.py are a second component with fields of   *)
(* their own; AdapterSpec drives them from one caller.                     *)
(***************************************************************************)
EXTENDS Integers, Sequences, FiniteSets

\* ---------------------------------------------------------------- bounds

\* config.max_power, in power units: the largest power the controller accepts.
MaxPower == 2

\* How many threading.Timer threads may exist at once (waiting or running).
MaxTimers == 2

\* How many callables may be registered in all.
MaxCallbacks == 2

\* How many device ids the device manager is asked about.
MaxDevices == 2

\* ------------------------------------------------------------- constants

\* duty_cycle is modelled in percent: 1.0 is 100.
DutyOne == 100

Main == 0
TimerIds == 1..MaxTimers
Threads == {Main} \cup TimerIds

\* LightSourceState
LightSourceState == {"off", "standby", "calibrating", "ready", "emitting", "error"}

\* The values a caller may pass, valid and invalid ones.
Powers == (0 - 1)..(MaxPower + 1)
Durations == {0 - 1, 0, 1}
Frequencies == {0 - 1, 0}
DutyCycles == {0, DutyOne, DutyOne + 50}

\* EmissionParameters (mode is an enum that no code path inspects).
EmissionParameters ==
    [power : Powers, duration : Durations, frequency : Frequencies,
     duty_cycle : DutyCycles]

VARIABLES
    state,          \* controller.state
    current_power,  \* controller.current_power
    opt_active,     \* optimizer.optimization_active
    mon_active,     \* monitor.monitoring_active
    pc,             \* per thread: the statement it executes next
    cur,            \* the control thread's current (or latest) call
    result,         \* what that call returned ("pending" while it runs)
    events,         \* the events the control thread's call has published, in order
    mine,           \* per timer: scheduled by the latest emission
    early,          \* per timer: its emission was stopped by hand before it fired
    callbacks,      \* controller._callbacks: per event name, the callables registered
    delivered,      \* the callback invocations of the control thread's call, in order
    adapters,       \* per adapter: its connected flag and its transport object
    registered,     \* DeviceManager.adapters: the (device id, adapter) items, in dict order
    last            \* the latest adapter or manager operation and what it returned

\* The fields of the adapters and of the device manager.
device_vars == <<adapters, registered, last>>

vars == <<state, current_power, opt_active, mon_active, pc, cur, result, events, mine, early,
          callbacks, delivered, adapters, registered, last>>

\* -------------------------------------------------------------- helpers

Goto(th, label) == pc' = [pc EXCEPT ![th] = label]

\* The payloads _update_state and set_power hand to _trigger_callbacks (the
\* timestamp is left out); "by" records the publishing thread.
\* Mutant: _update_state reads old_state after it has assigned the new one.
StateChangeAfterAssignment(th, o, n) ==
    [name |-> "state_change", old_state |-> n, new_state |-> n, power |-> 0, by |-> th]

StateChange(th, o, n) ==
    [name |-> "state_change", old_state |-> o, new_state |-> n, power |-> 0, by |-> th]

PowerUpdate(th, p) ==
    [name |-> "power_update", old_state |-> "", new_state |-> "", power |-> p, by |-> th]

\* The keys of self._callbacks, lines 211-215.
EventNames == {"state_change", "power_update", "error"}

\* The names a caller may pass to register_callback: the keys and another.
RegisteredNames == EventNames \cup {"other"}

\* The callables a caller may register: one that returns, one that raises.
Callables == {"returns", "raises"}

\* self._callbacks.get(event, [])
callbacks_for(event) ==
    IF event \in DOMAIN callbacks THEN callbacks[event] ELSE <<>>

\* Mutant: the try block encloses the loop, so that the first callback that
\* raises ends the delivery.
RECURSIVE invoke_until_raise(_, _)
invoke_until_raise(cbs, data) ==
    IF cbs = <<>> THEN <<>>
    ELSE IF Head(cbs) = "raises"
      THEN <<[callback |-> Head(cbs), data |-> data, outcome |-> "caught"]>>
      ELSE <<[callback |-> Head(cbs), data |-> data, outcome |-> "returned"]>>
              \o invoke_until_raise(Tail(cbs), data)

\* lines 421-425, the loop: callback(data) inside try/except Exception, so an
\* exception of one callback is logged and the loop goes on to the next.
RECURSIVE invoke_each(_, _)
invoke_each(cbs, data) ==
    IF cbs = <<>> THEN <<>>
    ELSE <<[callback |-> Head(cbs), data |-> data,
            outcome |-> IF Head(cbs) = "raises" THEN "caught" ELSE "returned"]>>
            \o invoke_each(Tail(cbs), data)

\* The invocations _trigger_callbacks makes for the list cbs.
invoke_callbacks(cbs, data) == invoke_each(cbs, data)

\* _trigger_callbacks: the event is delivered, synchronously, on the publishing
\* thread, to the callables registered for its name.  events and delivered
\* keep what the control thread publishes and invokes during its call; a
\* timer thread publishes exactly in its step from st298 to st299.
trigger_callbacks(ev) ==
    /\ events' = IF ev.by = Main THEN Append(events, ev) ELSE events
    /\ delivered' = IF ev.by = Main
                      THEN delivered \o invoke_callbacks(callbacks_for(ev.name), ev)
                      ELSE delivered
    /\ UNCHANGED callbacks

\* A new call of the control thread: the operation, its power argument
\* (for start_emission only when the call goes on to use it), whether a
\* timer is to be scheduled, whether the arguments passed the checks, and
\* the state the call's first statement found (kept for the operations whose
\* first statement reads the state).
NewCall(op, p, timed, ok) ==
    /\ pc[Main] = "idle"
    /\ cur' = [op |-> op, power |-> p, timed |-> timed, ok |-> ok,
               entry |-> IF op \in {"power_off", "calibrate"} THEN "off" ELSE state]

\* _update_state, lines 410-417: old_state = self.state; self.state = new_state;
\* then the state_change event with both.
update_state(th, new_state) ==
    /\ state' = new_state
    /\ trigger_callbacks(StateChange(th, state, new_state))

\* ------------------------------------------- adapters (device_adapters.py)

\* One adapter object of each variant: EthernetAdapter (a socket),
\* SerialAdapter (a serial port) and ModbusTCPAdapter.
AdapterIds == {"ethernet", "serial", "modbus"}

\* The device ids the manager is asked about.
DeviceIds == 1..MaxDevices

\* The transport object an adapter holds (self.socket, self.serial): "none"
\* is None, "up" an open and connected one, "down" one that is closed or
\* never got connected.
Links == {"none", "up", "down"}

\* __init__ of the three adapters: no transport object, connected = False.
NewAdapter == [connected |-> FALSE, link |-> "none"]

\* What an operation returned: the not-connected error, the send-failed
\* error, the not-registered error, the device's decoded reply, the Modbus
\* success dict, or the boolean of connect.
Responses == {"not_connected", "send_failed", "not_registered", "reply", "success",
              "true", "false", "void"}

\* The result map of an operation that returns none.
NoResults == [d \in {} |-> "void"]

NoOperation ==
    [op |-> "none", device |-> 0, adapter |-> "none", response |-> "void", io |-> FALSE,
     results |-> NoResults]

Init ==
    /\ state = "off"
    /\ current_power = 0
    /\ opt_active = FALSE
    /\ mon_active = FALSE
    /\ pc = [th \in Threads |-> IF th = Main THEN "idle" ELSE "unused"]
    /\ cur = [op |-> "none", power |-> 0, timed |-> FALSE, ok |-> TRUE, entry |-> "off"]
    /\ result = "none"
    /\ events = <<>>
    /\ callbacks = [n \in EventNames |-> <<>>]
    /\ delivered = <<>>
    /\ adapters = [a \in AdapterIds |-> NewAdapter]
    /\ registered = <<>>
    /\ last = NoOperation
    /\ mine = [t \in TimerIds |-> FALSE]
    /\ early = [t \in TimerIds |-> FALSE]

\* ------------------------------------------------------------- power_on

\* Mutant: the state check of line 220 is missing.
power_on_accepts_any_state == TRUE

\* power_on, line 220: `if self.state != LightSourceState.OFF` refuses.
power_on_accepts == state = "off"

\* power_on, lines 220-222: refused unless the state is OFF.
power_on_call ==
    /\ NewCall("power_on", 0, FALSE, TRUE)
    /\ events' = <<>>
    /\ delivered' = <<>>
    /\ UNCHANGED callbacks
    /\ IF ~power_on_accepts
         THEN result' = "false" /\ UNCHANGED pc
         ELSE result' = "pending" /\ Goto(Main, "on226")
    /\ UNCHANGED <<state, current_power, opt_active, mon_active,
                   mine, early>>
    /\ UNCHANGED device_vars

\* line 226: self._update_state(STANDBY)
power_on_standby ==
    /\ pc[Main] = "on226"
    /\ update_state(Main, "standby")
    /\ Goto(Main, "on229")
    /\ UNCHANGED <<current_power, opt_active, mon_active,
                   cur, result, mine, early>>
    /\ UNCHANGED device_vars

\* The calls of lines 229-233, in order: quantum_jet.initialize(),
\* optimizer.warm_up(), self._execute_warmup_sequence().
StartupSteps == <<"initialize", "warm_up", "warmup_sequence">>

\* What one of them does: it completes, or it raises.
StartupOutcomes == {"done", "raise"}

StartupResults == [1..Len(StartupSteps) -> StartupOutcomes]

\* The simulated subsystems: every step completes.
AllComplete == [i \in 1..Len(StartupSteps) |-> "done"]

\* Mutant: only an exception of quantum_jet.initialize() reaches the except
\* clause.
startup_raises_first(r) == r[1] = "raise"

\* An exception of any of the three calls leaves the try block of lines 224-237.
startup_raises(r) == \E i \in 1..Len(StartupSteps) : r[i] = "raise"

\* lines 229-233 with the steps ending as r says; cur.ok records whether all
\* of them completed.
power_on_run(r) ==
    /\ pc[Main] = "on229"
    /\ Goto(Main, IF startup_raises(r) THEN "on241" ELSE "on235")
    /\ cur' = [cur EXCEPT !.ok = (r = AllComplete)]
    /\ UNCHANGED <<state, current_power, opt_active, mon_active,
                   result, events, callbacks, delivered, mine, early>>
    /\ UNCHANGED device_vars

\* lines 229-233: quantum_jet.initialize(), optimizer.warm_up() and the
\* four-step warm-up ramp; they sleep, log and set fields of the jet
\* subsystem that the controller never reads.
power_on_warmup == power_on_run(AllComplete)

\* lines 229-233 with subsystems that can fail: one of the steps raises.
power_on_warmup_fault ==
    \E r \in StartupResults \ {AllComplete} : power_on_run(r)

\* lines 239-242, the except clause: self._update_state(ERROR); return False
power_on_except ==
    /\ pc[Main] = "on241"
    /\ update_state(Main, "error")
    /\ result' = "false"
    /\ Goto(Main, "idle")
    /\ UNCHANGED <<current_power, opt_active, mon_active,
                   cur, mine, early>>
    /\ UNCHANGED device_vars

\* lines 235-237: self._update_state(READY); return True
power_on_ready ==
    /\ pc[Main] = "on235"
    /\ update_state(Main, "ready")
    /\ Goto(Main, "idle")
    /\ result' = "true"
    /\ UNCHANGED <<current_power, opt_active, mon_active,
                   cur, mine, early>>
    /\ UNCHANGED device_vars

power_on ==
    \/ power_on_call
    \/ power_on_standby
    \/ power_on_warmup
    \/ power_on_ready

\* The steps of power_on that only failing subsystems bring about.
power_on_faults ==
    \/ power_on_warmup_fault
    \/ power_on_except

\* -------------------------------------------------------- stop_emission

\* Where a thread goes when its stop_emission returns: the control thread
\* back into power_off (line 250) or to its caller; a timer thread ends.
after_stop(th) ==
    IF th = Main
      THEN (IF cur.op = "power_off" THEN "off250" ELSE "idle")
      ELSE "unused"

\* The control thread's stop_emission() call returns None to its caller.
stop_result(th) ==
    IF th = Main /\ cur.op = "stop_emission" THEN "void" ELSE result

\* A timer thread that ends frees its slot.
ended(th, f) == IF th = Main THEN f ELSE [f EXCEPT ![th] = FALSE]

\* The timers that have not fired when thread th returns from a stop_emission
\* that ended their emission, th being the control thread in a stop_emission()
\* call of its own; a timer thread that ends frees its slot.
stopped_early(th) ==
    IF th = Main /\ cur.op = "stop_emission"
      THEN [t \in TimerIds |-> early[t] \/ (pc[t] = "waiting" /\ mine[t])]
      ELSE ended(th, early)

\* Mutant: the test of line 292 is `self.state != OFF`.
stop_emission_applies_unless_off == state # "off"

\* line 292: if self.state == LightSourceState.EMITTING
stop_emission_applies == state = "emitting"

\* stop_emission() called by the control thread; line 292 is its first statement.
stop_emission_call ==
    /\ NewCall("stop_emission", 0, FALSE, TRUE)
    /\ events' = <<>>
    /\ delivered' = <<>>
    /\ UNCHANGED callbacks
    /\ IF stop_emission_applies
         THEN result' = "pending" /\ Goto(Main, "st295")
         ELSE result' = "void" /\ UNCHANGED pc
    /\ UNCHANGED <<state, current_power, opt_active, mon_active,
                   mine, early>>
    /\ UNCHANGED device_vars

\* line 292, inside power_off or in a timer thread: if self.state == EMITTING
stop_emission_check(th) ==
    /\ pc[th] = "st292"
    /\ IF stop_emission_applies
         THEN /\ Goto(th, "st295")
              /\ UNCHANGED <<result, mine, early>>
         ELSE /\ Goto(th, after_stop(th))
              /\ result' = stop_result(th)
              /\ mine' = ended(th, mine)
              /\ early' = ended(th, early)
    /\ UNCHANGED <<state, current_power, opt_active, mon_active,
                   cur, events, callbacks, delivered>>
    /\ UNCHANGED device_vars

\* line 295: self.optimizer.stop_real_time_optimization()
stop_emission_optimizer(th) ==
    /\ pc[th] = "st295"
    /\ opt_active' = FALSE
    /\ Goto(th, "st296")
    /\ UNCHANGED <<state, current_power, mon_active, cur,
                   result, events, callbacks, delivered, mine, early>>
    /\ UNCHANGED device_vars

\* line 296: self.monitor.stop_power_monitoring()
stop_emission_monitor(th) ==
    /\ pc[th] = "st296"
    /\ mon_active' = FALSE
    /\ Goto(th, "st298")
    /\ UNCHANGED <<state, current_power, opt_active, cur,
                   result, events, callbacks, delivered, mine, early>>
    /\ UNCHANGED device_vars

\* line 298: self._update_state(READY)
stop_emission_ready(th) ==
    /\ pc[th] = "st298"
    /\ update_state(th, "ready")
    /\ Goto(th, "st299")
    /\ UNCHANGED <<current_power, opt_active, mon_active,
                   cur, result, mine, early>>
    /\ UNCHANGED device_vars

\* line 299: self.current_power = 0.0, and the return
stop_emission_zero(th) ==
    /\ pc[th] = "st299"
    /\ current_power' = 0
    /\ Goto(th, after_stop(th))
    /\ result' = stop_result(th)
    /\ mine' = ended(th, mine)
    /\ early' = stopped_early(th)
    /\ UNCHANGED <<state, opt_active, mon_active, cur, events, callbacks, delivered>>
    /\ UNCHANGED device_vars

\* The body of stop_emission, run by thread th.
stop_emission_body(th) ==
    \/ stop_emission_check(th)
    \/ stop_emission_optimizer(th)
    \/ stop_emission_monitor(th)
    \/ stop_emission_ready(th)
    \/ stop_emission_zero(th)

stop_emission ==
    \/ stop_emission_call
    \/ stop_emission_body(Main)

\* lines 295-296 with subsystems that can fail: stop_real_time_optimization()
\* or stop_power_monitoring() raises.  stop_emission has no try block, and
\* neither has power_off: the exception leaves the control thread's call
\* (result "raised"), and ends a timer thread.
stop_emission_raise(th) ==
    /\ pc[th] \in {"st295", "st296"}
    /\ Goto(th, IF th = Main THEN "idle" ELSE "unused")
    /\ result' = IF th = Main THEN "raised" ELSE result
    /\ mine' = ended(th, mine)
    /\ early' = ended(th, early)
    /\ UNCHANGED <<state, current_power, opt_active, mon_active,
                   cur, events, callbacks, delivered>>
    /\ UNCHANGED device_vars

\* The steps of stop_emission that only failing subsystems bring about.
stop_emission_faults == \E th \in Threads : stop_emission_raise(th)

\* ------------------------------------------------------------ power_off

\* power_off(), line 246: it logs, then calls stop_emission (line 249).
power_off_call ==
    /\ NewCall("power_off", 0, FALSE, TRUE)
    /\ events' = <<>>
    /\ delivered' = <<>>
    /\ UNCHANGED callbacks
    /\ result' = "pending"
    /\ Goto(Main, "st292")
    /\ UNCHANGED <<state, current_power, opt_active, mon_active,
                   mine, early>>
    /\ UNCHANGED device_vars

\* lines 250-251: self.optimizer.shutdown(), which clears optimization_active,
\* and self.quantum_jet.shutdown(), which sets fields of the jet subsystem
\* that the controller never reads.
power_off_shutdown ==
    /\ pc[Main] = "off250"
    /\ opt_active' = FALSE
    /\ Goto(Main, "off253")
    /\ UNCHANGED <<state, current_power, mon_active,
                   cur, result, events, callbacks, delivered, mine, early>>
    /\ UNCHANGED device_vars

\* line 253: self._update_state(OFF)
power_off_off ==
    /\ pc[Main] = "off253"
    /\ update_state(Main, "off")
    /\ Goto(Main, "off254")
    /\ UNCHANGED <<current_power, opt_active, mon_active,
                   cur, result, mine, early>>
    /\ UNCHANGED device_vars

\* line 254: self.current_power = 0.0, and the return
power_off_zero ==
    /\ pc[Main] = "off254"
    /\ current_power' = 0
    /\ Goto(Main, "idle")
    /\ result' = "void"
    /\ UNCHANGED <<state, opt_active, mon_active, cur,
                   events, callbacks, delivered, mine, early>>
    /\ UNCHANGED device_vars

power_off ==
    \/ power_off_call
    \/ power_off_shutdown
    \/ power_off_off
    \/ power_off_zero

\* lines 250-251 with subsystems that can fail: optimizer.shutdown() raises,
\* or it completes and quantum_jet.shutdown() raises.  power_off has no try
\* block: the exception leaves the call before lines 253-254.
power_off_raise ==
    /\ pc[Main] = "off250"
    /\ opt_active' \in {opt_active, FALSE}
    /\ result' = "raised"
    /\ Goto(Main, "idle")
    /\ UNCHANGED <<state, current_power, mon_active,
                   cur, events, callbacks, delivered, mine, early>>
    /\ UNCHANGED device_vars

\* The steps of power_off that only failing subsystems bring about.
power_off_faults == power_off_raise

\* ------------------------------------------------------- start_emission

\* Mutant: line 399 with < for <=, so that a duty cycle of 0 passes.
validate_emission_parameters_zero_duty(params) ==
    /\ ~(params.power <= 0 \/ params.power > MaxPower)
    /\ ~(params.duration < 0)
    /\ ~(params.frequency < 0)
    /\ ~(params.duty_cycle < 0 \/ params.duty_cycle > DutyOne)

\* _validate_emission_parameters, lines 390-400: TRUE when nothing is raised.
validate_emission_parameters(params) ==
    /\ ~(params.power <= 0 \/ params.power > MaxPower)
    /\ ~(params.duration < 0)
    /\ ~(params.frequency < 0)
    /\ ~(params.duty_cycle <= 0 \/ params.duty_cycle > DutyOne)

\* Mutant: the state check of line 259 is missing.
start_emission_accepts_any_state(params) ==
    validate_emission_parameters(params)

\* start_emission goes on past lines 259-264: the state is READY and the
\* parameters pass validation.
start_emission_accepts(params) ==
    /\ state = "ready"
    /\ validate_emission_parameters(params)

\* A Timer slot that is free.
FreeTimers == {t \in TimerIds : pc[t] = "unused"}

\* start_emission(params), lines 259-267: the state check, the validation
\* and _apply_emission_parameters (three configure calls that only log).
start_emission_call(params) ==
    /\ NewCall("start_emission",
               IF start_emission_accepts(params) THEN params.power ELSE 0,
               start_emission_accepts(params) /\ params.duration > 0,
               validate_emission_parameters(params))
    /\ (start_emission_accepts(params) /\ params.duration > 0) => FreeTimers # {}
    /\ events' = <<>>
    /\ delivered' = <<>>
    /\ UNCHANGED callbacks
    /\ IF start_emission_accepts(params)
         THEN result' = "pending" /\ Goto(Main, "se270")
         ELSE result' = "false" /\ UNCHANGED pc
    /\ UNCHANGED <<state, current_power, opt_active, mon_active,
                   mine, early>>
    /\ UNCHANGED device_vars

\* line 270: self.optimizer.start_real_time_optimization()
start_emission_optimizer ==
    /\ pc[Main] = "se270"
    /\ opt_active' = TRUE
    /\ Goto(Main, "se272")
    /\ UNCHANGED <<state, current_power, mon_active, cur,
                   result, events, callbacks, delivered, mine, early>>
    /\ UNCHANGED device_vars

\* line 272: self._update_state(EMITTING); a new emission begins, and every
\* timer that exists belongs to an earlier one.
start_emission_emitting ==
    /\ pc[Main] = "se272"
    /\ update_state(Main, "emitting")
    /\ mine' = [t \in TimerIds |-> FALSE]
    /\ Goto(Main, "se273")
    /\ UNCHANGED <<current_power, opt_active, mon_active,
                   cur, result, early>>
    /\ UNCHANGED device_vars

\* line 273: self.current_power = params.power
start_emission_power ==
    /\ pc[Main] = "se273"
    /\ current_power' = cur.power
    /\ Goto(Main, "se278")
    /\ UNCHANGED <<state, opt_active, mon_active, cur,
                   result, events, callbacks, delivered, mine, early>>
    /\ UNCHANGED device_vars

\* line 278: self.monitor.start_power_monitoring()
start_emission_monitor ==
    /\ pc[Main] = "se278"
    /\ mon_active' = TRUE
    /\ Goto(Main, "se282")
    /\ UNCHANGED <<state, current_power, opt_active, cur,
                   result, events, callbacks, delivered, mine, early>>
    /\ UNCHANGED device_vars

\* lines 281-284: if params.duration > 0, threading.Timer(duration,
\* self.stop_emission).start(); return True
start_emission_timer ==
    /\ pc[Main] = "se282"
    /\ result' = "true"
    /\ IF cur.timed
         THEN LET t == CHOOSE x \in FreeTimers : \A y \in FreeTimers : x <= y
              IN  /\ pc' = [pc EXCEPT ![Main] = "idle", ![t] = "waiting"]
                  /\ mine' = [mine EXCEPT ![t] = TRUE]
         ELSE /\ Goto(Main, "idle")
              /\ UNCHANGED mine
    /\ UNCHANGED <<state, current_power, opt_active, mon_active,
                   cur, events, callbacks, delivered, early>>
    /\ UNCHANGED device_vars

start_emission ==
    \/ \E params \in EmissionParameters : start_emission_call(params)
    \/ start_emission_optimizer
    \/ start_emission_emitting
    \/ start_emission_power
    \/ start_emission_monitor
    \/ start_emission_timer

\* lines 267-270 with subsystems that can fail: one of the three configure
\* calls of _apply_emission_parameters, or start_real_time_optimization(),
\* raises; the except clause of lines 286-288 returns False.
start_emission_configure_raise ==
    /\ pc[Main] = "se270"
    /\ result' = "false"
    /\ Goto(Main, "idle")
    /\ UNCHANGED <<state, current_power, opt_active, mon_active,
                   cur, events, callbacks, delivered, mine, early>>
    /\ UNCHANGED device_vars

\* line 278 with a monitor that can fail: start_power_monitoring() raises,
\* after lines 272-273 have run; the except clause of lines 286-288 returns
\* False and undoes nothing.
start_emission_monitor_raise ==
    /\ pc[Main] = "se278"
    /\ result' = "false"
    /\ Goto(Main, "idle")
    /\ UNCHANGED <<state, current_power, opt_active, mon_active,
                   cur, events, callbacks, delivered, mine, early>>
    /\ UNCHANGED device_vars

\* The steps of start_emission that only failing subsystems bring about.
start_emission_faults ==
    \/ start_emission_configure_raise
    \/ start_emission_monitor_raise

\* ------------------------------------------------------------ set_power

\* Mutant: line 305 with >= for >, so that max_power itself is refused.
power_in_range_strict(power) == ~(power < 0 \/ power >= MaxPower)

\* line 305, negated: the power is within the accepted range.
power_in_range(power) == ~(power < 0 \/ power > MaxPower)

\* Mutant: the state check of line 309 is missing.
set_power_accepts_any_state(power) == power_in_range(power)

\* set_power goes on past lines 305-311.
set_power_accepts(power) ==
    /\ power_in_range(power)
    /\ state = "emitting"

\* set_power(power), lines 305-311: the range check, then the state check.
set_power_call(power) ==
    /\ NewCall("set_power", power, FALSE, power_in_range(power))
    /\ events' = <<>>
    /\ delivered' = <<>>
    /\ UNCHANGED callbacks
    /\ IF set_power_accepts(power)
         THEN result' = "pending" /\ Goto(Main, "sp314")
         ELSE result' = "false" /\ UNCHANGED pc
    /\ UNCHANGED <<state, current_power, opt_active, mon_active,
                   mine, early>>
    /\ UNCHANGED device_vars

\* line 314: success = self.optimizer.adjust_power(power), which returns True.
set_power_adjust ==
    /\ pc[Main] = "sp314"
    /\ Goto(Main, "sp316")
    /\ UNCHANGED <<state, current_power, opt_active, mon_active,
                   cur, result, events, callbacks, delivered, mine, early>>
    /\ UNCHANGED device_vars

\* line 316: self.current_power = power
set_power_store ==
    /\ pc[Main] = "sp316"
    /\ current_power' = cur.power
    /\ Goto(Main, "sp317")
    /\ UNCHANGED <<state, opt_active, mon_active, cur,
                   result, events, callbacks, delivered, mine, early>>
    /\ UNCHANGED device_vars

\* lines 317-319: self._trigger_callbacks('power_update', power); return success
set_power_publish ==
    /\ pc[Main] = "sp317"
    /\ trigger_callbacks(PowerUpdate(Main, cur.power))
    /\ result' = "true"
    /\ Goto(Main, "idle")
    /\ UNCHANGED <<state, current_power, opt_active, mon_active,
                   cur, mine, early>>
    /\ UNCHANGED device_vars

set_power ==
    \/ \E power \in Powers : set_power_call(power)
    \/ set_power_adjust
    \/ set_power_store
    \/ set_power_publish

\* ------------------------------------------------------------ calibrate

\* calibrate(), line 327: it logs; no state is checked.
calibrate_call ==
    /\ NewCall("calibrate", 0, FALSE, TRUE)
    /\ events' = <<>>
    /\ delivered' = <<>>
    /\ UNCHANGED callbacks
    /\ result' = "pending"
    /\ Goto(Main, "cal328")
    /\ UNCHANGED <<state, current_power, opt_active, mon_active,
                   mine, early>>
    /\ UNCHANGED device_vars

\* line 328: self._update_state(CALIBRATING)
calibrate_calibrating ==
    /\ pc[Main] = "cal328"
    /\ update_state(Main, "calibrating")
    /\ Goto(Main, "cal333")
    /\ UNCHANGED <<current_power, opt_active, mon_active,
                   cur, result, mine, early>>
    /\ UNCHANGED device_vars

\* The keys of calibration_results, in the order the dict literal of lines
\* 332-336 evaluates them.
Subsystems == <<"quantum_jet", "optimizer", "sensors">>

\* What one subsystem calibration does: it returns True or False, or raises.
CalibrationOutcomes == {"true", "false", "raise"}

CalibrationResults == [1..Len(Subsystems) -> CalibrationOutcomes]

\* The three calibrations of the simulated subsystems: each returns True.
AllSucceed == [i \in 1..Len(Subsystems) |-> "true"]

\* Mutant: any(...) for all(...) at line 338.
calibration_any(r) == \E i \in 1..Len(Subsystems) : r[i] = "true"

\* line 338: all(calibration_results.values())
calibration_all(r) == \A i \in 1..Len(Subsystems) : r[i] = "true"

\* Where lines 332-338 lead: the except clause when a calibration raises,
\* otherwise the branch that all(...) selects.
calibration_branch(r) ==
    IF \E i \in 1..Len(Subsystems) : r[i] = "raise" THEN "cal349"
    ELSE IF calibration_all(r) THEN "cal339"
    ELSE "cal344"

\* lines 332-338 with the calibrations ending as r says; cur.ok records
\* whether all three succeeded.
calibrate_run(r) ==
    /\ pc[Main] = "cal333"
    /\ Goto(Main, calibration_branch(r))
    /\ cur' = [cur EXCEPT !.ok = (r = AllSucceed)]
    /\ UNCHANGED <<state, current_power, opt_active, mon_active,
                   result, events, callbacks, delivered, mine, early>>
    /\ UNCHANGED device_vars

\* lines 332-338: the three subsystem calibrations, each of which sleeps and
\* returns True, so that all(...) is True.
calibrate_subsystems == calibrate_run(AllSucceed)

\* lines 332-338 with subsystems that can fail: some calibration returns
\* False or raises.
calibrate_subsystems_fault ==
    \E r \in CalibrationResults \ {AllSucceed} : calibrate_run(r)

\* lines 342-345, all(...) being False: self._update_state(ERROR); return False
calibrate_failed ==
    /\ pc[Main] = "cal344"
    /\ update_state(Main, "error")
    /\ result' = "false"
    /\ Goto(Main, "idle")
    /\ UNCHANGED <<current_power, opt_active, mon_active,
                   cur, mine, early>>
    /\ UNCHANGED device_vars

\* lines 347-350, the except clause: self._update_state(ERROR); return False
calibrate_except ==
    /\ pc[Main] = "cal349"
    /\ update_state(Main, "error")
    /\ result' = "false"
    /\ Goto(Main, "idle")
    /\ UNCHANGED <<current_power, opt_active, mon_active,
                   cur, mine, early>>
    /\ UNCHANGED device_vars

\* lines 339-341: self._update_state(READY); return True
calibrate_ready ==
    /\ pc[Main] = "cal339"
    /\ update_state(Main, "ready")
    /\ result' = "true"
    /\ Goto(Main, "idle")
    /\ UNCHANGED <<current_power, opt_active, mon_active,
                   cur, mine, early>>
    /\ UNCHANGED device_vars

calibrate ==
    \/ calibrate_call
    \/ calibrate_calibrating
    \/ calibrate_subsystems
    \/ calibrate_ready

\* The steps of calibrate that only failing subsystems bring about.
calibrate_faults ==
    \/ calibrate_subsystems_fault
    \/ calibrate_failed
    \/ calibrate_except

\* ---------------------------------------------------- register_callback

\* How many callables are registered, over all event names.
Registered ==
    Len(callbacks["state_change"]) + Len(callbacks["power_update"])
        + Len(callbacks["error"])

\* register_callback(event, callback), lines 369-370: the callable is appended
\* to the list of a known event name; any other name is ignored.
register_callback(event, callback) ==
    /\ NewCall("register_callback", 0, FALSE, event \in DOMAIN callbacks)
    /\ Registered < MaxCallbacks
    /\ callbacks' = IF event \in DOMAIN callbacks
                      THEN [callbacks EXCEPT ![event] = Append(@, callback)]
                      ELSE callbacks
    /\ result' = "void"
    /\ events' = <<>>
    /\ delivered' = <<>>
    /\ UNCHANGED <<state, current_power, opt_active, mon_active, pc, mine, early>>
    /\ UNCHANGED device_vars

\* --------------------------------------------------------------- timers

\* The delay of Timer t has elapsed: its thread calls self.stop_emission.
timer_fire(t) ==
    /\ pc[t] = "waiting"
    /\ Goto(t, "st292")
    /\ UNCHANGED <<state, current_power, opt_active, mon_active,
                   cur, result, events, callbacks, delivered, mine, early>>
    /\ UNCHANGED device_vars

\* A step of the thread of Timer t.
timer(t) ==
    \/ timer_fire(t)
    \/ stop_emission_body(t)

Next ==
    \/ power_on
    \/ power_off
    \/ calibrate
    \/ start_emission
    \/ stop_emission
    \/ set_power
    \/ \E t \in TimerIds : timer(t)

Spec == Init /\ [][Next]_vars

\* The scheduler runs every timer thread that can take a step.
FairSpec == Spec /\ \A t \in TimerIds : WF_vars(timer(t))

\* start_emission without a duration (duration <= 0): no Timer is created.
start_emission_untimed ==
    \/ \E params \in {p \in EmissionParameters : p.duration <= 0} :
          start_emission_call(params)
    \/ start_emission_optimizer
    \/ start_emission_emitting
    \/ start_emission_power
    \/ start_emission_monitor
    \/ start_emission_timer

\* The controller with subscribers: the control thread registers callables
\* and makes calls, and every event is delivered on it (no Timer is created;
\* Next is the controller with no callable registered).
CallbackNext ==
    \/ \E event \in RegisteredNames, callback \in Callables :
          register_callback(event, callback)
    \/ power_on
    \/ power_off
    \/ calibrate
    \/ start_emission_untimed
    \/ stop_emission
    \/ set_power

CallbackSpec == Init /\ [][CallbackNext]_vars

\* The controller with all calls serialized: the control thread alone, no
\* Timer, with subsystems that can fail.
SerialNext ==
    \/ power_on
    \/ power_off
    \/ calibrate
    \/ start_emission_untimed
    \/ stop_emission
    \/ set_power
    \/ power_on_faults
    \/ power_off_faults
    \/ start_emission_faults
    \/ stop_emission_raise(Main)
    \/ calibrate_faults

SerialSpec == Init /\ [][SerialNext]_vars

\* The controller with subsystems that can fail: a subsystem call may raise,
\* a calibration may report failure.
FaultNext ==
    \/ Next
    \/ power_on_faults
    \/ power_off_faults
    \/ start_emission_faults
    \/ stop_emission_faults
    \/ calibrate_faults

FaultSpec == Init /\ [][FaultNext]_vars

\* --------------------------------------------------- adapter operations

\* connect, applied to the adapter fields ad.  EthernetAdapter (lines 41-50)
\* replaces self.socket by a new socket and then connects it; SerialAdapter
\* (lines 92-103) assigns self.serial only if serial.Serial(...) opens the
\* port.  Either sets connected on success and leaves it as it was on
\* failure.  ModbusTCPAdapter (lines 137-140) sets connected and returns
\* True.
connect_effect(a, ad, reachable) ==
    CASE a = "ethernet" ->
           [connected |-> IF reachable THEN TRUE ELSE ad.connected,
            link |-> IF reachable THEN "up" ELSE "down"]
      [] a = "serial" ->
           [connected |-> IF reachable THEN TRUE ELSE ad.connected,
            link |-> IF reachable THEN "up" ELSE ad.link]
      [] a = "modbus" ->
           [connected |-> TRUE, link |-> ad.link]

connect_result(a, reachable) == IF a = "modbus" \/ reachable THEN "true" ELSE "false"

connect(a) ==
    /\ \E reachable \in BOOLEAN :
         /\ adapters' = [adapters EXCEPT ![a] = connect_effect(a, adapters[a], reachable)]
         /\ last' = [op |-> "connect", device |-> 0, adapter |-> a,
                     response |-> connect_result(a, reachable), io |-> FALSE,
                     results |-> NoResults]
    /\ UNCHANGED <<registered, state, current_power, opt_active, mon_active, pc, cur, result,
                   events, mine, early, callbacks, delivered>>

\* disconnect (lines 52-55, 105-108, 142-143): closes the transport object
\* if there is one and clears connected.
disconnect(a) ==
    /\ adapters' = [adapters EXCEPT ![a] =
                      [connected |-> FALSE,
                       link |-> IF adapters[a].link = "none" THEN "none" ELSE "down"]]
    /\ last' = [op |-> "disconnect", device |-> 0, adapter |-> a, response |-> "void",
                io |-> FALSE, results |-> NoResults]
    /\ UNCHANGED <<registered, state, current_power, opt_active, mon_active, pc, cur, result,
                   events, mine, early, callbacks, delivered>>

\* Mutant: send_command tests the transport object instead of the flag.
not_connected_by_link(a) == adapters[a].link = "none"

\* send_command, lines 58, 111, 146: `if not self.connected`.
not_connected(a) == ~adapters[a].connected

\* send_command past its connected test.  EthernetAdapter (lines 61-78)
\* builds the message with time.time(), and the module does not import
\* time: the NameError is caught before self.socket.send is reached.
\* SerialAdapter (lines 114-124) encodes the parameters, writes to the port
\* and reads a line; whatever raises is caught.  ModbusTCPAdapter (lines
\* 149-150) returns its success dict.
transport_send(a, serializable, answered) ==
    CASE a = "ethernet" -> [response |-> "send_failed", io |-> FALSE]
      [] a = "serial" ->
           IF ~serializable \/ adapters[a].link # "up"
           THEN [response |-> "send_failed", io |-> FALSE]
           ELSE [response |-> IF answered THEN "reply" ELSE "send_failed", io |-> TRUE]
      [] a = "modbus" -> [response |-> "success", io |-> FALSE]

\* send_command of an adapter: what it returns and whether it reached its
\* transport (socket.send, serial.write).
adapter_send(a, serializable, answered) ==
    IF not_connected(a)
    THEN [response |-> "not_connected", io |-> FALSE]
    ELSE transport_send(a, serializable, answered)

send_command(a) ==
    /\ \E serializable \in BOOLEAN, answered \in BOOLEAN :
         LET r == adapter_send(a, serializable, answered) IN
         last' = [op |-> "send_command", device |-> 0, adapter |-> a,
                  response |-> r.response, io |-> r.io, results |-> NoResults]
    /\ UNCHANGED <<adapters, registered, state, current_power, opt_active, mon_active, pc, cur,
                   result, events, mine, early, callbacks, delivered>>

\* ------------------------------------------------------- DeviceManager

\* The keys of DeviceManager.adapters.
device_ids == {registered[i].id : i \in DOMAIN registered}

\* Where the key d stands in the dict.
position(d) == CHOOSE i \in DOMAIN registered : registered[i].id = d

\* self.adapters[d]
adapter_of(d) == registered[position(d)].adapter

\* Mutant: register_device keeps the adapter an id already has (setdefault).
register_entry_keeps_first(d, a) ==
    IF d \in device_ids
    THEN registered
    ELSE Append(registered, [id |-> d, adapter |-> a])

\* register_device, line 165: self.adapters[device_id] = adapter.  A new key
\* goes to the end of the dict; a key already there keeps its place and
\* gets the new adapter.
register_entry(d, a) ==
    IF d \in device_ids
    THEN [registered EXCEPT ![position(d)].adapter = a]
    ELSE Append(registered, [id |-> d, adapter |-> a])

\* DeviceManager.register_device, lines 163-166.
register_device(d, a) ==
    /\ registered' = register_entry(d, a)
    /\ last' = [op |-> "register_device", device |-> d, adapter |-> a, response |-> "void",
                io |-> FALSE, results |-> NoResults]
    /\ UNCHANGED <<adapters, state, current_power, opt_active, mon_active, pc, cur, result,
                   events, mine, early, callbacks, delivered>>

\* send_to_device, line 180: adapter = self.adapters[device_id].
delegate(d) == adapter_of(d)

\* send_to_device, lines 177-181: the not-registered error, or what the
\* adapter's send_command returns.
manager_send(d, serializable, answered) ==
    IF d \notin device_ids
    THEN [adapter |-> "none", response |-> "not_registered", io |-> FALSE]
    ELSE LET r == adapter_send(delegate(d), serializable, answered) IN
         [adapter |-> delegate(d), response |-> r.response, io |-> r.io]

\* DeviceManager.send_to_device, lines 175-181.
send_to_device(d) ==
    /\ \E serializable \in BOOLEAN, answered \in BOOLEAN :
         LET r == manager_send(d, serializable, answered) IN
         last' = [op |-> "send_to_device", device |-> d, adapter |-> r.adapter,
                  response |-> r.response, io |-> r.io, results |-> NoResults]
    /\ UNCHANGED <<adapters, registered, state, current_power, opt_active, mon_active, pc, cur,
                   result, events, mine, early, callbacks, delivered>>

\* results[device_id] = entry, on the result map of a loop over the dict.
with_result(results, d, entry) ==
    [e \in DOMAIN results \cup {d} |-> IF e = d THEN entry ELSE results[e]]

\* Whether each connect of a connect_all finds its device, item by item.
Reachabilities == [DOMAIN registered -> BOOLEAN]

\* Mutant: the loop of connect_all ends at the first connect that fails.
RECURSIVE connect_until_failure(_, _, _)
connect_until_failure(i, acc, reach) ==
    IF i > Len(registered)
    THEN acc
    ELSE LET d == registered[i].id
             a == registered[i].adapter
             next == [adapters |-> [acc.adapters EXCEPT
                                      ![a] = connect_effect(a, acc.adapters[a], reach[i])],
                      results |-> with_result(acc.results, d,
                                      [adapter |-> a, response |-> connect_result(a, reach[i]),
                                       io |-> FALSE])]
         IN IF connect_result(a, reach[i]) = "false"
            THEN next
            ELSE connect_until_failure(i + 1, next, reach)

connect_loop_until_failure(reach) ==
    connect_until_failure(1, [adapters |-> adapters, results |-> NoResults], reach)

\* connect_all, lines 171-172: the items of the dict from the i-th on, in
\* dict order; each adapter.connect() acts on what the earlier ones left.
RECURSIVE connect_each(_, _, _)
connect_each(i, acc, reach) ==
    IF i > Len(registered)
    THEN acc
    ELSE LET d == registered[i].id
             a == registered[i].adapter
         IN connect_each(i + 1,
                [adapters |-> [acc.adapters EXCEPT
                                 ![a] = connect_effect(a, acc.adapters[a], reach[i])],
                 results |-> with_result(acc.results, d,
                                 [adapter |-> a, response |-> connect_result(a, reach[i]),
                                  io |-> FALSE])],
                reach)

\* connect_all, lines 170-173: results = {} and the loop.
connect_loop(reach) ==
    connect_each(1, [adapters |-> adapters, results |-> NoResults], reach)

\* DeviceManager.connect_all, lines 168-173.
connect_all ==
    /\ \E reach \in Reachabilities :
         LET r == connect_loop(reach) IN
         /\ adapters' = r.adapters
         /\ last' = [op |-> "connect_all", device |-> 0, adapter |-> "none",
                     response |-> "void", io |-> FALSE, results |-> r.results]
    /\ UNCHANGED <<registered, state, current_power, opt_active, mon_active, pc, cur, result,
                   events, mine, early, callbacks, delivered>>

\* Whether the device behind each item of the dict answers a command with a
\* line of JSON, item by item.
Answers == [DOMAIN registered -> BOOLEAN]

\* broadcast_command, lines 186-187: the keys of the dict from the i-th on,
\* in dict order, each sent through send_to_device.  An entry also keeps
\* whether anything between the call and the device's answer was at fault
\* (parameters that json.dumps refuses, a device that does not answer).
RECURSIVE broadcast_each(_, _, _, _)
broadcast_each(i, results, serializable, answers) ==
    IF i > Len(registered)
    THEN results
    ELSE LET d == registered[i].id
             r == manager_send(d, serializable, answers[i])
         IN broadcast_each(i + 1,
                with_result(results, d,
                    [adapter |-> r.adapter, response |-> r.response, io |-> r.io,
                     fault |-> ~(serializable /\ answers[i])]),
                serializable, answers)

\* DeviceManager.broadcast_command, lines 183-188.
broadcast_command ==
    /\ \E serializable \in BOOLEAN, answers \in Answers :
         last' = [op |-> "broadcast_command", device |-> 0, adapter |-> "none",
                  response |-> "void", io |-> FALSE,
                  results |-> broadcast_each(1, NoResults, serializable, answers)]
    /\ UNCHANGED <<adapters, registered, state, current_power, opt_active, mon_active, pc, cur,
                   result, events, mine, early, callbacks, delivered>>

\* The adapters and the device manager, driven by one caller.
AdapterNext ==
    \/ \E a \in AdapterIds : connect(a)
    \/ \E a \in AdapterIds : disconnect(a)
    \/ \E a \in AdapterIds : send_command(a)
    \/ \E d \in DeviceIds, a \in AdapterIds : register_device(d, a)
    \/ \E d \in DeviceIds : send_to_device(d)
    \/ connect_all
    \/ broadcast_command

AdapterSpec == Init /\ [][AdapterNext]_vars

\* ---------------------------------------------------- steps and threads

\* The thread of Timer t takes this step.
TimerStep(t) == pc[t] # "unused" /\ pc'[t] # pc[t]

\* No timer thread takes this step: it is the control thread's, if anyone's.
MainStep == \A t \in TimerIds : ~TimerStep(t)

\* The control thread makes a call of op in this step.
CallStep(op) == pc[Main] = "idle" /\ MainStep /\ cur'.op = op

\* Thread th publishes the READY state_change of stop_emission in this step.
StopPublishes(th) == pc[th] = "st298" /\ pc'[th] = "st299"

\* No timer thread is running stop_emission.
NoTimerRunning == \A t \in TimerIds : pc[t] \in {"unused", "waiting"}

\* The control thread is between calls and no timer thread is running.
Quiescent == pc[Main] = "idle" /\ NoTimerRunning

\* The operation a state change belongs to: the timer expiry, or the
\* control thread's current call.
Actor == IF \E t \in TimerIds : TimerStep(t) THEN "timer" ELSE cur'.op

\* ------------------------------------------------------------------ C1

\* C1: when power_off returns, the state is OFF and current_power is 0,
\* whatever the state was when it was called (a second power_off included).
C1_PowerOffEndsOff ==
    [][(pc[Main] = "off254" /\ pc'[Main] = "idle")
         => (state' = "off" /\ current_power' = 0)]_vars

\* ------------------------------------------------------------------ C2

\* C2: a start_emission call made in a state other than READY, or with
\* parameters that fail validation, returns False at once and leaves state
\* and current_power as they were; and a step of start_emission changes the
\* state only in a call that found READY and whose parameters are valid.
C2_RejectedStartKeepsState ==
    [][/\ (CallStep("start_emission") /\ ~(state = "ready" /\ cur'.ok))
            => /\ result' = "false"
               /\ pc'[Main] = "idle"
               /\ state' = state
               /\ current_power' = current_power
       /\ (MainStep /\ cur.op = "start_emission" /\ pc[Main] # "idle"
              /\ state' # state)
            => (cur.entry = "ready" /\ cur.ok)]_vars

\* A valid request was refused while EMITTING, and nothing changed.
C2_Witness ==
    /\ cur.op = "start_emission"
    /\ result = "false"
    /\ cur.ok
    /\ cur.entry = "emitting"
    /\ state = "emitting"
    /\ current_power = MaxPower

\* ------------------------------------------------------------------ C3

\* C3: between calls, with no timer thread running, current_power is
\* nonzero only if the state is EMITTING.
C3_PowerOnlyWhileEmitting ==
    Quiescent => (current_power # 0 => state = "emitting")

\* ------------------------------------------------------------------ C4

\* The rows of the transition table: (from-state, operation, to-state).
TableRow(from, op, to) ==
    \/ op = "power_on" /\ <<from, to>> \in
          {<<"off", "standby">>, <<"standby", "ready">>, <<"standby", "error">>}
    \/ op = "calibrate" /\ <<from, to>> \in
          {<<"ready", "calibrating">>, <<"calibrating", "ready">>,
           <<"calibrating", "error">>}
    \/ op = "start_emission" /\ <<from, to>> = <<"ready", "emitting">>
    \/ op \in {"stop_emission", "timer", "power_off"}
          /\ <<from, to>> = <<"emitting", "ready">>
    \/ op = "power_off" /\ to = "off"

\* C4: every change of the state is a row of the transition table.
C4_TransitionTable ==
    [][state' # state => TableRow(state, Actor, state')]_vars

\* ------------------------------------------------------------------ C5

\* C5: once stop_emission has been called on a timed emission whose timer
\* had not fired, no step of that timer's thread changes the state or
\* publishes a state_change event.
C5_StoppedTimerIsCancelled ==
    [][\A t \in TimerIds :
          (early[t] /\ TimerStep(t)) => (state' = state /\ ~StopPublishes(t))]_vars

\* ------------------------------------------------------------------ C6

\* C6: a timer thread takes the state out of EMITTING only if it is the
\* timer of the emission in progress, never that of an earlier one.
C6_NoStaleTimerStop ==
    [][\A t \in TimerIds :
          (TimerStep(t) /\ state = "emitting" /\ state' # "emitting")
             => mine[t]]_vars

\* ------------------------------------------------------------------ C7

\* C7: once power_off has returned and every timer callback has finished,
\* the state is OFF and current_power is 0; and stop_emission makes its
\* transition to READY only from EMITTING, so at most once per emission.
C7_TimerSerializedWithPowerOff ==
    /\ []((cur.op = "power_off" /\ Quiescent)
            => (state = "off" /\ current_power = 0))
    /\ [][\A th \in Threads : StopPublishes(th) => state = "emitting"]_vars

\* ------------------------------------------------------------------ C8

\* A start_emission with duration > 0 has returned True and the control
\* thread has made no call since.
TimedEmissionStarted ==
    /\ cur.op = "start_emission"
    /\ cur.timed
    /\ result = "true"
    /\ pc[Main] = "idle"

\* C8: after a start_emission with duration > 0 and no further call, the
\* state does not leave EMITTING while the emission's own timer has not
\* fired, and it is eventually READY with current_power 0.
C8_TimedEmissionAutoStops ==
    /\ [][(TimedEmissionStarted /\ state = "emitting"
             /\ \E t \in TimerIds : mine[t] /\ pc[t] = "waiting")
            => state' = "emitting"]_vars
    /\ (TimedEmissionStarted
          ~> ((state = "ready" /\ current_power = 0) \/ ~TimedEmissionStarted))

\* ------------------------------------------------------------------ C9

\* C9: set_power(p) with 0 < p <= max_power, called while EMITTING, goes on
\* to store p in current_power, returns True having published exactly one
\* power_update event, whose payload is p, and none of its steps changes
\* the state.
C9_SetPowerWhileEmitting ==
    [][/\ (CallStep("set_power") /\ state = "emitting"
              /\ cur'.power > 0 /\ cur'.power <= MaxPower)
            => (pc'[Main] = "sp314" /\ result' = "pending" /\ events' = <<>>)
       /\ (pc[Main] = "sp316" /\ pc'[Main] # "sp316")
            => current_power' = cur.power
       /\ (pc[Main] = "sp317" /\ pc'[Main] # "sp317")
            => /\ result' = "true"
               /\ pc'[Main] = "idle"
               /\ events' = <<PowerUpdate(Main, cur.power)>>
       /\ (MainStep /\ cur'.op = "set_power") => state' = state]_vars

\* set_power(max_power) has succeeded during an emission.
C9_Witness ==
    /\ cur.op = "set_power"
    /\ cur.power = MaxPower
    /\ cur.entry = "emitting"
    /\ result = "true"
    /\ state = "emitting"
    /\ current_power = MaxPower
    /\ events = <<PowerUpdate(Main, MaxPower)>>

\* ----------------------------------------------------------------- C10

\* C10: set_power called in a state other than EMITTING returns False at
\* once, whatever the power, leaves state and current_power as they were
\* and publishes nothing.
C10_SetPowerNotEmitting ==
    [][(CallStep("set_power") /\ state # "emitting")
         => /\ result' = "false"
            /\ pc'[Main] = "idle"
            /\ state' = state
            /\ current_power' = current_power
            /\ events' = <<>>]_vars

\* A power within range was refused while READY.
C10_Witness ==
    /\ cur.op = "set_power"
    /\ cur.power = MaxPower
    /\ cur.ok
    /\ cur.entry = "ready"
    /\ result = "false"
    /\ state = "ready"
    /\ current_power = 0
    /\ events = <<>>

\* ----------------------------------------------------------------- C11

\* C11: set_power(p) with p <= 0 or p > max_power returns False at once in
\* every state, Emitting included, leaves state and current_power as they
\* were and publishes nothing.
C11_SetPowerOutOfRange ==
    [][(CallStep("set_power") /\ (cur'.power <= 0 \/ cur'.power > MaxPower))
         => /\ result' = "false"
            /\ pc'[Main] = "idle"
            /\ state' = state
            /\ current_power' = current_power
            /\ events' = <<>>]_vars

\* ----------------------------------------------------------------- C12

\* The control thread's call finishes in this step, from one of the labels ls.
Returns(op, ls) ==
    /\ MainStep
    /\ cur.op = op
    /\ pc[Main] \in ls
    /\ pc'[Main] = "idle"

\* C12: calibrate first sets the state to Calibrating; it then returns True
\* having set the state to Ready when all three calibrations succeeded, and
\* returns False having set the state to Error when any of them reported
\* failure or raised.
C12_CalibrateOutcome ==
    [][/\ CallStep("calibrate") => pc'[Main] = "cal328"
       /\ (MainStep /\ pc[Main] = "cal328" /\ pc'[Main] # "cal328")
            => state' = "calibrating"
       /\ Returns("calibrate", {"cal339", "cal344", "cal349"})
            => IF cur.ok
                 THEN result' = "true" /\ state' = "ready"
                 ELSE result' = "false" /\ state' = "error"
       /\ (MainStep /\ cur'.op = "calibrate" /\ result' = "true")
            => (cur'.ok /\ pc[Main] = "cal339")]_vars

\* A calibrate in which some calibration failed has returned False in Error.
C12_Witness ==
    /\ cur.op = "calibrate"
    /\ ~cur.ok
    /\ pc[Main] = "idle"
    /\ result = "false"
    /\ state = "error"

\* ----------------------------------------------------------------- C13

\* C13: power_on called in Off first sets the state to Standby; it then
\* returns True having set the state to Ready when initialization, warm-up
\* and the warm-up ramp all completed, and returns False having set the
\* state to Error when one of them raised.  The except clause returns to the
\* caller (no retry), and no return of power_on writes Standby.
C13_PowerOnOutcome ==
    [][/\ (CallStep("power_on") /\ state = "off") => pc'[Main] = "on226"
       /\ (MainStep /\ pc[Main] = "on226" /\ pc'[Main] # "on226")
            => (state' = "standby" /\ pc'[Main] = "on229")
       /\ (MainStep /\ pc[Main] \in {"on235", "on241"}
              /\ pc'[Main] # pc[Main])
            => pc'[Main] = "idle"
       /\ Returns("power_on", {"on235", "on241"})
            => IF cur.ok
                 THEN result' = "true" /\ state' = "ready"
                 ELSE result' = "false" /\ state' = "error"
       /\ (MainStep /\ cur'.op = "power_on" /\ result' = "true")
            => (cur'.ok /\ pc[Main] = "on235")]_vars

\* A power_on in which a start-up step raised has returned False in Error.
C13_Witness ==
    /\ cur.op = "power_on"
    /\ cur.entry = "off"
    /\ ~cur.ok
    /\ pc[Main] = "idle"
    /\ result = "false"
    /\ state = "error"

\* ----------------------------------------------------------------- C14

\* C14: every power_off call returns normally, also when stopping the
\* emission or shutting down a subsystem raised, and when it returns the
\* state is Off and current_power is 0.
C14_PowerOffNeverFails ==
    [][(MainStep /\ cur.op = "power_off" /\ pc[Main] # "idle"
           /\ pc'[Main] = "idle")
         => (result' = "void" /\ state' = "off" /\ current_power' = 0)]_vars

\* ----------------------------------------------------------------- C15

\* C15: when a start_emission call that passed the state check and the
\* validation returns False because a subsystem call raised, the state is
\* Ready, current_power is 0 and the call has scheduled no timer.
C15_FailedStartNoTransition ==
    [][(Returns("start_emission", {"se270", "se278"}) /\ result' = "false")
         => /\ state' = "ready"
            /\ current_power' = 0
            /\ \A t \in TimerIds : pc'[t] = pc[t]]_vars

\* ----------------------------------------------------------------- C16

\* C16: a stop_emission call that finds a state other than Emitting returns
\* at once and changes nothing: not the state, not current_power, not the
\* optimizer's or the monitor's flag, and it publishes nothing.  A call that
\* finds Emitting stops the optimizer loop, then the monitor, then writes
\* Ready and zeroes current_power, and when it returns the state is Ready,
\* current_power is 0 and both subsystems are stopped.
C16_StopEmissionEffect ==
    [][/\ (CallStep("stop_emission") /\ state # "emitting")
            => /\ result' = "void"
               /\ pc'[Main] = "idle"
               /\ state' = state
               /\ current_power' = current_power
               /\ opt_active' = opt_active
               /\ mon_active' = mon_active
               /\ events' = <<>>
       /\ (CallStep("stop_emission") /\ state = "emitting")
            => (pc'[Main] = "st295" /\ result' = "pending")
       /\ (MainStep /\ cur.op = "stop_emission" /\ pc[Main] = "st295"
              /\ pc'[Main] # "st295")
            => (~opt_active' /\ pc'[Main] = "st296")
       /\ (MainStep /\ cur.op = "stop_emission" /\ pc[Main] = "st296"
              /\ pc'[Main] # "st296")
            => (~mon_active' /\ pc'[Main] = "st298")
       /\ (MainStep /\ cur.op = "stop_emission" /\ pc[Main] = "st298"
              /\ pc'[Main] # "st298")
            => (state' = "ready" /\ pc'[Main] = "st299")
       /\ Returns("stop_emission", {"st299"})
            => /\ result' = "void"
               /\ state' = "ready"
               /\ current_power' = 0
               /\ ~opt_active'
               /\ ~mon_active']_vars

\* A stop_emission called in Ready, with a nonzero current_power left behind
\* by an earlier call, has returned and changed nothing.
C16_Witness ==
    /\ cur.op = "stop_emission"
    /\ cur.entry = "ready"
    /\ pc[Main] = "idle"
    /\ result = "void"
    /\ state = "ready"
    /\ current_power = MaxPower
    /\ events = <<>>

\* ----------------------------------------------------------------- C17

\* The bounds of a request: 0 < power <= max_power, duration >= 0,
\* frequency >= 0, 0 < duty_cycle <= 1.
WithinBounds(params) ==
    /\ 0 < params.power /\ params.power <= MaxPower
    /\ params.duration >= 0
    /\ params.frequency >= 0
    /\ 0 < params.duty_cycle /\ params.duty_cycle <= DutyOne

\* C17: the validation accepts a request exactly when it is within the
\* bounds; a start_emission call that finds Ready goes on exactly when its
\* request passes the validation, then writes Emitting, stores the request's
\* power in current_power and returns True; with a request outside the
\* bounds it returns False at once with the state still Ready.
C17_StartEmissionInReady ==
    /\ [](\A params \in EmissionParameters :
            validate_emission_parameters(params) <=> WithinBounds(params))
    /\ [][/\ (CallStep("start_emission") /\ state = "ready" /\ cur'.ok)
               => /\ pc'[Main] = "se270"
                  /\ result' = "pending"
                  /\ 0 < cur'.power /\ cur'.power <= MaxPower
          /\ (CallStep("start_emission") /\ state = "ready" /\ ~cur'.ok)
               => /\ result' = "false"
                  /\ pc'[Main] = "idle"
                  /\ state' = "ready"
                  /\ current_power' = current_power
          /\ (MainStep /\ pc[Main] = "se272" /\ pc'[Main] # "se272")
               => state' = "emitting"
          /\ (MainStep /\ pc[Main] = "se273" /\ pc'[Main] # "se273")
               => current_power' = cur.power
          /\ Returns("start_emission", {"se282"}) => result' = "true"
          /\ (MainStep /\ cur'.op = "start_emission" /\ result' = "true")
               => (cur'.ok /\ cur'.entry = "ready" /\ pc[Main] = "se282")]_vars

\* A request outside the bounds was refused in Ready, and the state is
\* still Ready.
C17_Witness ==
    /\ cur.op = "start_emission"
    /\ cur.entry = "ready"
    /\ ~cur.ok
    /\ pc[Main] = "idle"
    /\ result = "false"
    /\ state = "ready"
    /\ current_power = 0

\* ----------------------------------------------------------------- C18

\* C18: the state leaves Error only by a step of a call of the control
\* thread, never by a timer; a power_on call made in Error is carried out,
\* and returns True in Ready when all its steps complete; a calibrate call
\* whose three calibrations succeed returns True in Ready.
C18_ErrorRecoverable ==
    [][/\ (state = "error" /\ state' # "error") => MainStep
       /\ (CallStep("power_on") /\ state = "error")
            => (result' = "pending" /\ pc'[Main] = "on226")
       /\ (Returns("power_on", {"on235", "on241"}) /\ cur.ok)
            => (result' = "true" /\ state' = "ready")
       /\ (Returns("calibrate", {"cal339", "cal344", "cal349"}) /\ cur.ok)
            => (result' = "true" /\ state' = "ready")]_vars

\* ----------------------------------------------------------------- C19

\* What the delivery of event ev has to be: one invocation for every callable
\* registered for its name, in registration order, raising or not.
ExpectedInvocations(ev) ==
    [i \in 1..Len(callbacks[ev.name]) |->
        [callback |-> callbacks[ev.name][i], data |-> ev,
         outcome |-> IF callbacks[ev.name][i] = "raises"
                       THEN "caught" ELSE "returned"]]

\* The control thread publishes an event in this step.
Publishes == MainStep /\ Len(events') = Len(events) + 1

\* C19: a step that publishes an event invokes every callable registered for
\* the event's name, once each and in registration order, whether or not an
\* earlier one raised, and it completes as it does with no subscriber: a
\* state_change leaves the new state written, and power_on, calibrate,
\* start_emission and set_power return True, stop_emission and power_off
\* return normally.
C19_CallbackDelivery ==
    [][/\ Publishes
            => LET ev == events'[Len(events')]
               IN  /\ delivered' = delivered \o ExpectedInvocations(ev)
                   /\ ev.name = "state_change" => state' = ev.new_state
                   /\ pc'[Main] # pc[Main]
       /\ (MainStep /\ Len(events') = Len(events)) => delivered' = delivered
       /\ Returns("power_on", {"on235"}) => (result' = "true" /\ state' = "ready")
       /\ Returns("calibrate", {"cal339"}) => (result' = "true" /\ state' = "ready")
       /\ Returns("start_emission", {"se282"})
            => (result' = "true" /\ state' = "emitting")
       /\ Returns("set_power", {"sp317"})
            => (result' = "true" /\ current_power' = cur.power)
       /\ Returns("stop_emission", {"st299"})
            => (result' = "void" /\ state' = "ready")
       /\ Returns("power_off", {"off254"})
            => (result' = "void" /\ state' = "off")]_vars

\* set_power has returned True after its power_update was delivered first to
\* a callable that raised and then to one that returned.
C19_Witness ==
    /\ cur.op = "set_power"
    /\ result = "true"
    /\ callbacks["power_update"] = <<"raises", "returns">>
    /\ Len(delivered) = 2
    /\ delivered[1].callback = "raises" /\ delivered[1].outcome = "caught"
    /\ delivered[2].callback = "returns" /\ delivered[2].outcome = "returned"
    /\ delivered[2].data = PowerUpdate(Main, cur.power)


\* ------------------------------------------------------------ C20

\* A step in which an adapter's send_command ran, called directly or through
\* the device manager.
SendStep ==
    /\ last'.op \in {"send_command", "send_to_device"}
    /\ last'.adapter # "none"

\* C20: for every adapter variant and after every sequence of connect,
\* disconnect and send operations, send_command reaches its transport only
\* while the adapter's connected flag is true; while the flag is false,
\* send_command, called directly or through the device manager's send,
\* returns the not-connected error and performs no I/O.
C20_SendOnlyWhileConnected ==
    [][SendStep =>
         /\ last'.io => adapters[last'.adapter].connected
         /\ ~adapters[last'.adapter].connected =>
              /\ last'.response = "not_connected"
              /\ ~last'.io]_vars

\* C20 witness: the serial adapter was connected and disconnected, and a
\* send through the device manager then returned the not-connected error
\* without I/O.
C20_Witness ==
    /\ last.op = "send_to_device"
    /\ last.adapter = "serial"
    /\ adapters["serial"].link = "down"
    /\ ~adapters["serial"].connected
    /\ last.response = "not_connected"
    /\ ~last.io


\* ------------------------------------------------------------ C21

\* What send_command of adapter a may return, and whether it reached the
\* transport, in the current state.
SendOutcomes(a) ==
    {adapter_send(a, serializable, answered) :
        serializable \in BOOLEAN, answered \in BOOLEAN}

\* C21: send_to_device for an id that was never registered returns the
\* not-registered error and invokes no adapter; otherwise it invokes exactly
\* the adapter most recently registered under the id and returns that
\* adapter's response.  Stated over every step: register_device(d, a) makes a
\* the adapter of d, overwriting an earlier one, and touches no other id; no
\* other operation changes the registrations; and send_to_device(d) goes by
\* the registration of d as it stands.
C21_SendToRegisteredAdapter ==
    [][/\ last'.op = "register_device" =>
            /\ \E i \in DOMAIN registered' :
                 registered'[i] = [id |-> last'.device, adapter |-> last'.adapter]
            /\ \A i \in DOMAIN registered' :
                 registered'[i].id # last'.device =>
                     i \in DOMAIN registered /\ registered[i] = registered'[i]
            /\ \A i \in DOMAIN registered :
                 i \in DOMAIN registered' /\ registered'[i].id = registered[i].id
            /\ \A i, j \in DOMAIN registered' :
                 registered'[i].id = registered'[j].id => i = j
       /\ last'.op # "register_device" => registered' = registered
       /\ last'.op = "send_to_device" =>
            IF \A i \in DOMAIN registered : registered[i].id # last'.device
            THEN /\ last'.response = "not_registered"
                 /\ last'.adapter = "none"
                 /\ ~last'.io
            ELSE \E i \in DOMAIN registered :
                   /\ registered[i].id = last'.device
                   /\ last'.adapter = registered[i].adapter
                   /\ [response |-> last'.response, io |-> last'.io]
                          \in SendOutcomes(registered[i].adapter)
                   /\ adapters' = adapters]_vars

\* C21 witness: a send through the manager went to the serial adapter, which
\* is registered behind a device with another adapter, and returned the
\* device's reply.
C21_Witness ==
    /\ last.op = "send_to_device"
    /\ Len(registered) = 2
    /\ registered[2] = [id |-> last.device, adapter |-> "serial"]
    /\ registered[1].adapter = "modbus"
    /\ last.adapter = "serial"
    /\ last.response = "reply"
    /\ last.io


\* ------------------------------------------------------------ C22

\* The place of the last item of the dict that holds adapter a.
LastFor(a) ==
    CHOOSE i \in DOMAIN registered :
        /\ registered[i].adapter = a
        /\ \A j \in DOMAIN registered : registered[j].adapter = a => j <= i

\* How many items of the dict hold adapter a.
Held(a) == Cardinality({i \in DOMAIN registered : registered[i].adapter = a})

\* C22: connect_all calls connect on the adapter of every registered device,
\* whatever the earlier ones returned, and returns a map with exactly one
\* entry per registered id, whose value is the result of that device's own
\* connect: the entry names the device's adapter, a Modbus entry is true, and
\* the fields of each adapter show the result of the last connect made on it
\* (connected and linked after true; a fresh unconnected socket, or the
\* serial port as it was, after false).
\* Adapters that are not registered are not touched.
C22_ConnectAllAttemptsEvery ==
    [][last'.op = "connect_all" =>
         /\ registered' = registered
         /\ DOMAIN last'.results = {registered[i].id : i \in DOMAIN registered}
         /\ \A i \in DOMAIN registered :
              LET entry == last'.results[registered[i].id] IN
              /\ entry.adapter = registered[i].adapter
              /\ entry.response \in {"true", "false"}
              /\ entry.adapter = "modbus" => entry.response = "true"
         /\ \A a \in AdapterIds :
              IF \E i \in DOMAIN registered : registered[i].adapter = a
              THEN LET entry == last'.results[registered[LastFor(a)].id] IN
                   /\ entry.response = "true" =>
                        /\ adapters'[a].connected
                        /\ a # "modbus" => adapters'[a].link = "up"
                   /\ entry.response = "false" /\ a = "ethernet" =>
                        adapters'[a].link = "down"
                   /\ entry.response = "false" /\ a = "serial" /\ Held(a) = 1 =>
                        adapters'[a] = adapters[a]
              ELSE adapters'[a] = adapters[a]]_vars

\* C22 witness: connect_all over two devices, of which the first failed to
\* connect and the second, attempted all the same, connected.
C22_Witness ==
    /\ last.op = "connect_all"
    /\ Len(registered) = 2
    /\ registered[1].adapter = "ethernet"
    /\ registered[2].adapter = "serial"
    /\ last.results[registered[1].id].response = "false"
    /\ last.results[registered[2].id].response = "true"
    /\ adapters["serial"].connected
    /\ adapters["serial"].link = "up"


\* ------------------------------------------------------------ C23

\* The error responses of a send.
ErrorResponses == {"not_connected", "send_failed", "not_registered"}

\* C23: broadcast_command sends the command to every registered device and
\* returns a map with exactly one entry per registered id.  A device that is
\* not connected yields the not-connected error and one whose transport
\* fails an error, for that device only; every other device (connected,
\* with a sound link, nothing at fault on the way) is sent the command and
\* gets its own response, whatever became of the devices before it.
C23_BroadcastIsolatesFailures ==
    [][last'.op = "broadcast_command" =>
         /\ registered' = registered
         /\ adapters' = adapters
         /\ DOMAIN last'.results = {registered[i].id : i \in DOMAIN registered}
         /\ \A i \in DOMAIN registered :
              LET entry == last'.results[registered[i].id]
                  a == registered[i].adapter
              IN /\ entry.adapter = a
                 /\ ~adapters[a].connected =>
                      entry.response = "not_connected" /\ ~entry.io
                 /\ adapters[a].connected /\ entry.fault =>
                      entry.response \in ErrorResponses \/ a = "modbus"
                 /\ /\ adapters[a].connected
                    /\ a = "modbus" \/ adapters[a].link = "up"
                    /\ ~entry.fault
                    => /\ entry.response \notin ErrorResponses
                       /\ a # "modbus" => entry.io]_vars

\* C23 witness: a broadcast over a device that is not connected and a serial
\* device that is: the first gets the not-connected error, the second the
\* device's reply.
C23_Witness ==
    /\ last.op = "broadcast_command"
    /\ Len(registered) = 2
    /\ registered[2].adapter = "serial"
    /\ last.results[registered[1].id].response = "not_connected"
    /\ last.results[registered[2].id].response = "reply"
    /\ last.results[registered[2].id].io


\* ------------------------------------------------------------ C24

\* C24: whenever no call is under way, the optimizer's real-time
\* optimization and the monitor's power monitoring are active only if the
\* state is Emitting; after an operation that leaves the state Ready, Error or
\* Off (or any state but Emitting) both are inactive.
C24_ActiveOnlyWhileEmitting ==
    Quiescent => (opt_active \/ mon_active => state = "emitting")


\* ------------------------------------------------------------ C25

\* C25: power_on called in any state other than Off (Standby, Calibrating,
\* Ready, Emitting or Error) returns False at once, leaves the state and
\* current_power unchanged, calls no subsystem (the optimizer and the monitor
\* stay as they are) and publishes no event.
C25_PowerOnRefusedUnlessOff ==
    [][CallStep("power_on") /\ state # "off" =>
         /\ result' = "false"
         /\ pc'[Main] = "idle"
         /\ state' = state
         /\ current_power' = current_power
         /\ opt_active' = opt_active
         /\ mon_active' = mon_active
         /\ events' = <<>>
         /\ delivered' = <<>>]_vars

\* C25 witness: power_on was called in state Error and returned False, the
\* state still Error.
C25_Witness ==
    /\ cur.op = "power_on"
    /\ cur.entry = "error"
    /\ pc[Main] = "idle"
    /\ result = "false"
    /\ state = "error"


\* ------------------------------------------------------------ C26

IsStateChange(ev) == ev.name = "state_change"

\* The state_change events published in this step: a call starts with none
\* published, and a later step of the call adds to those published so far.
NewStateChanges ==
    SelectSeq(IF pc[Main] = "idle"
                THEN events'
                ELSE SubSeq(events', Len(events) + 1, Len(events')),
              IsStateChange)

\* C26: every assignment of the controller state publishes exactly one
\* state_change event, with the previous state as old_state and the assigned
\* state as new_state.  Stated over every step of the serialized controller:
\* a step that changes the state publishes exactly that one event, and a
\* step publishes a state_change event only so; within a call the events
\* published earlier stay.  Hence the events published since construction
\* form a chain that starts at Off, each old_state being the new_state of
\* the event before, and the new_state of the last is the current state.
C26_StateChangeChain ==
    [][/\ pc[Main] # "idle" =>
            Len(events') >= Len(events) /\ SubSeq(events', 1, Len(events)) = events
       /\ state' # state =>
            /\ Len(NewStateChanges) = 1
            /\ NewStateChanges[1].old_state = state
            /\ NewStateChanges[1].new_state = state'
       /\ NewStateChanges # <<>> =>
            /\ Len(NewStateChanges) = 1
            /\ NewStateChanges[1].old_state = state
            /\ NewStateChanges[1].new_state = state']_vars

\* C26 witness: calibrate, called in Ready, has published Ready ->
\* Calibrating and then Calibrating -> Error, and the state is Error.
C26_Witness ==
    /\ cur.op = "calibrate"
    /\ Len(events) = 2
    /\ events[1].old_state = "ready"
    /\ events[1].new_state = events[2].old_state
    /\ events[2].new_state = "error"
    /\ state = "error"


\* ------------------------------------------------------------ C27

\* The adapters with a transport of their own: EthernetAdapter and
\* SerialAdapter.
TransportAdapters == {"ethernet", "serial"}

\* C27: for the socket and the serial adapter the connected flag is true
\* exactly when the most recent connect succeeded and no disconnect has run
\* since.  Stated over every step: after a connect the flag is true if and
\* only if the connect returned True (a failed reconnect of a connected
\* adapter included; the connects of connect_all likewise); after a connect
\* that returned False, send_command returns the not-connected error; after
\* disconnect the flag is false, and a second disconnect changes nothing; no
\* other operation changes an adapter.
C27_ConnectedTracksConnect ==
    [][/\ last'.op = "connect" /\ last'.adapter \in TransportAdapters =>
            (adapters'[last'.adapter].connected <=> last'.response = "true")
       /\ last'.op = "connect_all" =>
            \A a \in TransportAdapters :
               (\E i \in DOMAIN registered : registered[i].adapter = a) =>
                  (adapters'[a].connected <=>
                      last'.results[registered[LastFor(a)].id].response = "true")
       /\ /\ last.op = "connect"
          /\ last.adapter \in TransportAdapters
          /\ last.response = "false"
          /\ last'.op = "send_command"
          /\ last'.adapter = last.adapter
          => last'.response = "not_connected" /\ ~last'.io
       /\ last'.op = "disconnect" => ~adapters'[last'.adapter].connected
       /\ last.op = "disconnect" /\ last'.op = "disconnect" /\ last'.adapter = last.adapter =>
            adapters' = adapters
       /\ last'.op \notin {"connect", "disconnect", "connect_all"} =>
            adapters' = adapters]_vars

\* C27 witness: a connect of the serial adapter returned False while the
\* adapter still held the port of an earlier connect.
C27_Witness ==
    /\ last.op = "connect"
    /\ last.adapter = "serial"
    /\ last.response = "false"
    /\ adapters["serial"].link = "up"

====
